---- MODULE Spec2Model ----
(***************************************************************************)
(* Model of realtime-dimension-inspector.js: the function                  *)
(* showElementDimensions(options), the closure updateDimensions it         *)
(* installs, and the host document that calls them back (window "resize"   *)
(* events and ResizeObserver notifications).                               *)
(*                                                                         *)
(* A JavaScript string is a sequence of chunks (TLA+ strings); its value   *)
(* is the concatenation of the chunks.  The lexemes the HTML parser acts   *)
(* on ("<br>", "<!--", "-->") and runs of white space (WS) are chunks of   *)
(* their own, so that assigning innerHTML can be modelled by what the      *)
(* parser does with the text and not as the identity.                      *)
(*                                                                         *)
(* Lengths are counted in 1/SubPx px: every such value is an exact         *)
(* double, so Number.prototype.toFixed rounds it exactly as done here.     *)
(***************************************************************************)
EXTENDS Integers, Sequences, FiniteSets, TLC

VARIABLES
    hasRO,            \* "ResizeObserver" in window
    viewport,         \* <<window.innerWidth, window.innerHeight>>
    inDoc,            \* inDoc[e]: element e is connected to the document
    size,             \* size[e]: <<width, height>> of e's box when laid out, in 1/SubPx px
    bodyChildren,     \* the overlays appended to document.body, in order
    calls,            \* one frame per invocation: arguments, locals, outcome
    resizeListeners,  \* window's "resize" listeners, in registration order
    observers,        \* the ResizeObservers: [callback |-> frame, target |-> element]
    pendingResize,    \* a "resize" event is queued by the host
    pendingRO,        \* observers with a notification queued by the host
    hostChanges,      \* how many times the host has changed the layout or the document
    last              \* the step taken last: [op, frame, rendered]

vars == <<hasRO, viewport, inDoc, size, bodyChildren, calls, resizeListeners,
          observers, pendingResize, pendingRO, hostChanges, last>>

----------------------------------------------------------------------------
(* Bounds of the model *)

MaxCalls == 2
MaxHostChanges == 1

(* Lengths are k/SubPx px *)
SubPx == 8

----------------------------------------------------------------------------
(* The document of the model: body, then two elements in document order.   *)
(* Element 2 is <div class="a">, element 3 is <div class="a b" t="<!--">.  *)

Null == 0
Body == 1
Elements == {1, 2, 3}
Removable == {3}

WS == " "

SelBody == <<"body">>
SelA == <<".a">>
SelB == <<".b">>
SelAttr == <<"[t=\"", "<!--", "\"]">>
SelEmpty == <<>>

Selectors == {SelBody, SelA, SelB, SelAttr, SelEmpty}

Viewports == {<<800, 600>>, <<1024, 768>>}
Sizes == {<<803, 1>>, <<1600, 6>>}

(* selector parsing of querySelector: the empty string is not a selector,  *)
(* and querySelector throws a SyntaxError on it                            *)
ValidSelector(sel) == sel \in {SelBody, SelA, SelB, SelAttr}

Matches(sel, e) ==
    \/ sel = SelBody /\ e = Body
    \/ sel = SelA /\ e \in {2, 3}
    \/ sel = SelB /\ e = 3
    \/ sel = SelAttr /\ e = 3

SetMin(S) == CHOOSE x \in S : \A y \in S : x <= y

(* document.querySelector(selector), for a valid selector: the first       *)
(* match in document order, or null                                        *)
querySelector(sel) ==
    LET M == {e \in Elements : inDoc[e] /\ Matches(sel, e)}
    IN  IF M = {} THEN Null ELSE SetMin(M)

(* element.getBoundingClientRect(): a disconnected element has an empty box *)
getBoundingClientRect(e) == IF inDoc[e] THEN size[e] ELSE <<0, 0>>

----------------------------------------------------------------------------
(* Strings and formatting *)

RECURSIVE Join(_)
(* the value of a string given as chunks *)
Join(chunks) ==
    IF chunks = <<>> THEN "" ELSE Head(chunks) \o Join(Tail(chunks))

(* Number.prototype.toFixed(2) of the non-negative value k/SubPx: let n be *)
(* the integer for which n/100 - k/SubPx is closest to zero, the larger n  *)
(* on a tie; the digits of n with a point before the last two              *)
toFixed(k) ==
    LET n == (2 * k * 100 + SubPx) \div (2 * SubPx)
    IN  ToString(n \div 100) \o "." \o ToString((n \div 10) % 10) \o ToString(n % 10)

(* the error message without the quotes around the selector *)
ErrorTemplateUnquoted(sel) ==
    <<"Element not present for selector: ">> \o sel

(* the template literal of the error branch *)
ErrorTemplate(sel) ==
    <<"Element not present for selector: \"">> \o sel \o <<"\"">>

(* the template literal of updateDimensions *)
DimensionsTemplate(vp, rect, sel) ==
    LET elWidth == toFixed(rect[1]) \o " px"
        elHeight == toFixed(rect[2]) \o " px"
    IN  <<WS, "Viewport => width: ", ToString(vp[1]), "px | height: ",
          ToString(vp[2]), "px", WS, "<br>", WS>>
        \o sel
        \o <<" => width: ", elWidth, " | height: ", elHeight, WS>>

----------------------------------------------------------------------------
(* DOM nodes and the two ways the code fills the overlay *)

Text(chunks) == [type |-> "text", data |-> chunks]
Br == [type |-> "br", data |-> <<>>]
Comment(chunks) == [type |-> "comment", data |-> chunks]

(* the index of the first "-->" at or after i, or 0 *)
CommentEnd(chunks, i) ==
    LET J == {j \in i..Len(chunks) : chunks[j] = "-->"}
    IN  IF J = {} THEN 0 ELSE SetMin(J)

RECURSIVE ParseHTML(_, _, _)
(* the HTML fragment parser on chunks[i..], appending to nodes: "<br>"     *)
(* makes an element, "<!--" opens a comment that runs to the next "-->"    *)
(* or to the end of the input, any other chunk is character data, merged   *)
(* into the text node before it                                            *)
ParseHTML(chunks, i, nodes) ==
    IF i > Len(chunks) THEN nodes
    ELSE IF chunks[i] = "<br>" THEN ParseHTML(chunks, i + 1, Append(nodes, Br))
    ELSE IF chunks[i] = "<!--" THEN
        LET j == CommentEnd(chunks, i + 1)
        IN  IF j = 0
            THEN Append(nodes, Comment(SubSeq(chunks, i + 1, Len(chunks))))
            ELSE ParseHTML(chunks, j + 1,
                           Append(nodes, Comment(SubSeq(chunks, i + 1, j - 1))))
    ELSE IF nodes # <<>> /\ nodes[Len(nodes)].type = "text"
         THEN ParseHTML(chunks, i + 1,
                        [nodes EXCEPT ![Len(nodes)].data = Append(@, chunks[i])])
         ELSE ParseHTML(chunks, i + 1, Append(nodes, Text(<<chunks[i]>>)))

(* node.innerHTML = s, escaping nothing *)
SetInnerHTML(chunks) == ParseHTML(chunks, 1, <<>>)

(* the error branch filling the overlay the way updateDimensions does *)
SetTextContentAsMarkup(chunks) == ParseHTML(chunks, 1, <<>>)

(* node.textContent = s: one text node holding s literally (none for "")  *)
SetTextContent(chunks) ==
    IF chunks = <<>> THEN <<>> ELSE <<Text(chunks)>>

RECURSIVE TextContent(_)
(* node.textContent read back: the data of the text nodes, concatenated *)
TextContent(nodes) ==
    IF nodes = <<>> THEN ""
    ELSE (IF Head(nodes).type = "text" THEN Join(Head(nodes).data) ELSE "")
         \o TextContent(Tail(nodes))

RECURSIVE TrimLeft(_)
TrimLeft(chunks) ==
    IF chunks # <<>> /\ Head(chunks) = WS THEN TrimLeft(Tail(chunks)) ELSE chunks

RECURSIVE TrimRight(_)
TrimRight(chunks) ==
    IF chunks # <<>> /\ chunks[Len(chunks)] = WS
    THEN TrimRight(SubSeq(chunks, 1, Len(chunks) - 1))
    ELSE chunks

RECURSIVE LineChunks(_, _)
(* the chunks of each rendered line: a br element breaks the line, a       *)
(* comment renders nothing                                                 *)
LineChunks(nodes, lines) ==
    IF nodes = <<>> THEN lines
    ELSE LET n == Head(nodes)
         IN  IF n.type = "br" THEN LineChunks(Tail(nodes), Append(lines, <<>>))
             ELSE IF n.type = "text"
                  THEN LineChunks(Tail(nodes),
                                  [lines EXCEPT ![Len(lines)] = @ \o n.data])
                  ELSE LineChunks(Tail(nodes), lines)

(* the lines the overlay shows: white space at the ends of a line collapses *)
RenderedLines(nodes) ==
    LET lines == LineChunks(nodes, <<<<>>>>)
    IN  [i \in 1..Len(lines) |-> Join(TrimRight(TrimLeft(lines[i])))]

----------------------------------------------------------------------------
(* showElementDimensions *)

Colors == {"green"}

NoArgument ==
    [passed |-> FALSE, hasSelector |-> FALSE, selector |-> <<>>,
     hasColor |-> FALSE, color |-> ""]

(* the argument values of the model: no argument, {}, {color}, {selector}  *)
Options ==
    {NoArgument}
    \cup {[passed |-> TRUE, hasSelector |-> FALSE, selector |-> <<>>,
           hasColor |-> hc, color |-> IF hc THEN c ELSE ""] :
             hc \in BOOLEAN, c \in Colors}
    \cup {[passed |-> TRUE, hasSelector |-> TRUE, selector |-> sel,
           hasColor |-> FALSE, color |-> ""] : sel \in Selectors \ {SelBody}}

(* const { selector = "body", color = "#989898" } = options, options = {}  *)
(* when no argument is passed                                              *)
ResolveSelector(options) ==
    IF options.passed /\ options.hasSelector THEN options.selector ELSE <<"body">>

ResolveColorDoc(options) ==
    IF options.passed /\ options.hasColor THEN options.color ELSE "#cccccc"

ResolveColor(options) ==
    IF options.passed /\ options.hasColor THEN options.color ELSE "#989898"

(* document.createElement("div") with the class and the style set on it *)
CreateResultsBloc(color) ==
    [className |-> "sizing-results-bloc",
     style |-> [position |-> "fixed", top |-> "10px", left |-> "50%",
                zIndex |-> "9999", border |-> "2px solid " \o color,
                color |-> color],
     childNodes |-> <<>>]

Frame(options, selector, color, element, resultsBloc, outcome) ==
    [options |-> options, selector |-> selector, color |-> color,
     element |-> element, resultsBloc |-> resultsBloc, outcome |-> outcome]

(* the viewport as it was when the page loaded *)
ReadViewportCached == <<800, 600>>

(* window.innerWidth, window.innerHeight *)
ReadViewport == viewport

(* the overlay a frame's updateDimensions would write if resultsBloc were  *)
(* one variable shared by all calls: the overlay created last              *)
RenderTargetShared(children, frame) == Len(children)

(* the overlay a frame's updateDimensions would write if it looked the     *)
(* overlay up by its class: the first one in the document                  *)
RenderTargetFirst(children, frame) == 1

(* the overlay a frame's updateDimensions writes: the resultsBloc of its   *)
(* own closure                                                             *)
RenderTarget(children, frame) == frame.resultsBloc

(* updateDimensions() of a frame on the children of body: reads the        *)
(* viewport and the element's box, overwrites the overlay's innerHTML      *)
updateDimensions(children, frame) ==
    LET vp == ReadViewport
        rect == getBoundingClientRect(frame.element)
    IN  [children EXCEPT ![RenderTarget(children, frame)].childNodes =
            SetInnerHTML(DimensionsTemplate(vp, rect, frame.selector))]

(* lines 13-18 when document.querySelector throws: the call ends there *)
CallThrows(options) ==
    LET selector == ResolveSelector(options)
        color == ResolveColor(options)
    IN  /\ ~ValidSelector(selector)
        /\ calls' = Append(calls, Frame(options, selector, color, Null, 0, "threw"))
        /\ last' = [op |-> "call", frame |-> Len(calls) + 1, rendered |-> {}]
        /\ UNCHANGED <<bodyChildren, resizeListeners, observers, pendingRO>>

(* lines 13-45: no element matches *)
CallMissing(options) ==
    LET selector == ResolveSelector(options)
        color == ResolveColor(options)
        resultsBloc == [CreateResultsBloc(color) EXCEPT
                           !.childNodes = SetTextContent(ErrorTemplate(selector))]
    IN  /\ ValidSelector(selector)
        /\ querySelector(selector) = Null
        /\ bodyChildren' = Append(bodyChildren, resultsBloc)
        /\ calls' = Append(calls, Frame(options, selector, color, Null,
                                        Len(bodyChildren) + 1, "returned"))
        /\ last' = [op |-> "call", frame |-> Len(calls) + 1, rendered |-> {}]
        /\ UNCHANGED <<resizeListeners, observers, pendingRO>>

(* lines 13-38 and 47-80: an element matches *)
CallFound(options) ==
    LET selector == ResolveSelector(options)
        color == ResolveColor(options)
        k == Len(calls) + 1
    IN  /\ ValidSelector(selector)
        /\ querySelector(selector) # Null
        /\ calls' = Append(calls, Frame(options, selector, color,
                                        querySelector(selector),
                                        Len(bodyChildren) + 1, "returned"))
        /\ bodyChildren' =
               updateDimensions(Append(bodyChildren, CreateResultsBloc(color)),
                                calls'[k])
        /\ IF hasRO
           THEN LET resizeObserver == [callback |-> k, target |-> calls'[k].element]
                IN  /\ observers' = observers \cup {resizeObserver}
                    /\ pendingRO' = pendingRO \cup {resizeObserver}
           ELSE UNCHANGED <<observers, pendingRO>>
        /\ resizeListeners' = Append(resizeListeners, k)
        /\ last' = [op |-> "call", frame |-> k, rendered |-> {k}]

showElementDimensions(options) ==
    /\ Len(calls) < MaxCalls
    /\ \/ CallThrows(options)
       \/ CallMissing(options)
       \/ CallFound(options)
    /\ UNCHANGED <<hasRO, viewport, inDoc, size, pendingResize, hostChanges>>

----------------------------------------------------------------------------
(* The host: it changes the layout and calls the registered callbacks *)

RECURSIVE RunListeners(_, _)
(* one "resize" event: every listener runs, in registration order *)
RunListeners(listeners, children) ==
    IF listeners = <<>> THEN children
    ELSE RunListeners(Tail(listeners),
                      updateDimensions(children, calls[Head(listeners)]))

Range(seq) == {seq[i] : i \in 1..Len(seq)}

(* the user resizes the window: the host queues a "resize" event *)
WindowResize(vp) ==
    /\ hostChanges < MaxHostChanges
    /\ hostChanges' = hostChanges + 1
    /\ vp # viewport
    /\ viewport' = vp
    /\ pendingResize' = TRUE
    /\ last' = [op |-> "host", frame |-> 0, rendered |-> {}]
    /\ UNCHANGED <<hasRO, inDoc, size, bodyChildren, calls, resizeListeners,
                   observers, pendingRO>>

(* the host delivers the queued "resize" event *)
DispatchResize ==
    /\ UNCHANGED hostChanges
    /\ pendingResize
    /\ pendingResize' = FALSE
    /\ bodyChildren' = RunListeners(resizeListeners, bodyChildren)
    /\ last' = [op |-> "resize", frame |-> 0, rendered |-> Range(resizeListeners)]
    /\ UNCHANGED <<hasRO, viewport, inDoc, size, calls, resizeListeners,
                   observers, pendingRO>>

(* a script of the page dispatches a "resize" event of its own *)
SyntheticResize ==
    /\ UNCHANGED hostChanges
    /\ calls # <<>>
    /\ bodyChildren' = RunListeners(resizeListeners, bodyChildren)
    /\ last' = [op |-> "resize", frame |-> 0, rendered |-> Range(resizeListeners)]
    /\ UNCHANGED <<hasRO, viewport, inDoc, size, calls, resizeListeners,
                   observers, pendingResize, pendingRO>>

(* the observers whose target is e get a notification queued: the box of e *)
(* has changed                                                             *)
Notify(e) == pendingRO \cup {o \in observers : o.target = e}

(* the layout gives element e another size *)
ElementResize(e, sz) ==
    /\ hostChanges < MaxHostChanges
    /\ hostChanges' = hostChanges + 1
    /\ inDoc[e]
    /\ sz # size[e]
    /\ size' = [size EXCEPT ![e] = sz]
    /\ pendingRO' = Notify(e)
    /\ last' = [op |-> "host", frame |-> 0, rendered |-> {}]
    /\ UNCHANGED <<hasRO, viewport, inDoc, bodyChildren, calls, resizeListeners,
                   observers, pendingResize>>

(* a script removes element e from the document, or puts it (back) in *)
SetConnected(e, b) ==
    /\ hostChanges < MaxHostChanges
    /\ hostChanges' = hostChanges + 1
    /\ e \in Removable
    /\ inDoc[e] # b
    /\ inDoc' = [inDoc EXCEPT ![e] = b]
    /\ pendingRO' = Notify(e)
    /\ last' = [op |-> "host", frame |-> 0, rendered |-> {}]
    /\ UNCHANGED <<hasRO, viewport, size, bodyChildren, calls, resizeListeners,
                   observers, pendingResize>>

(* the host delivers the notification queued for one ResizeObserver *)
DeliverElementResize(o) ==
    /\ UNCHANGED hostChanges
    /\ o \in pendingRO
    /\ pendingRO' = pendingRO \ {o}
    /\ bodyChildren' = updateDimensions(bodyChildren, calls[o.callback])
    /\ last' = [op |-> "elresize", frame |-> o.callback, rendered |-> {o.callback}]
    /\ UNCHANGED <<hasRO, viewport, inDoc, size, calls, resizeListeners,
                   observers, pendingResize>>

----------------------------------------------------------------------------

Init ==
    /\ hasRO \in BOOLEAN
    /\ viewport = <<800, 600>>
    /\ inDoc \in [Elements -> BOOLEAN]
    /\ inDoc[Body]
    /\ inDoc[2]
    /\ size = [e \in Elements |-> <<803, 1>>]
    /\ bodyChildren = <<>>
    /\ calls = <<>>
    /\ resizeListeners = <<>>
    /\ observers = {}
    /\ pendingResize = FALSE
    /\ pendingRO = {}
    /\ hostChanges = 0
    /\ last = [op |-> "init", frame |-> 0, rendered |-> {}]

Next ==
    \/ \E options \in Options : showElementDimensions(options)
    \/ \E vp \in Viewports : WindowResize(vp)
    \/ DispatchResize
    \/ SyntheticResize
    \/ \E e \in Elements, sz \in Sizes : ElementResize(e, sz)
    \/ \E e \in Removable, b \in BOOLEAN : SetConnected(e, b)
    \/ \E o \in observers : DeliverElementResize(o)

Spec == Init /\ [][Next]_vars

----------------------------------------------------------------------------
(* What the claims speak of *)

Frames == 1..Len(calls)
Returned(k) == calls[k].outcome = "returned"
Live(k) == Returned(k) /\ calls[k].element # Null
Missing(k) == Returned(k) /\ calls[k].element = Null
Overlay(k) == bodyChildren[calls[k].resultsBloc]
Shown(k) == RenderedLines(Overlay(k).childNodes)

(* the expected texts, written out for the values of the model *)
ViewportLine(vp) ==
    IF vp = <<800, 600>> THEN "Viewport => width: 800px | height: 600px"
    ELSE IF vp = <<1024, 768>> THEN "Viewport => width: 1024px | height: 768px"
    ELSE "?"

SelectorText(sel) ==
    IF sel = SelBody THEN "body"
    ELSE IF sel = SelA THEN ".a"
    ELSE IF sel = SelB THEN ".b"
    ELSE IF sel = SelAttr THEN "[t=\"<!--\"]"
    ELSE ""

TwoDecimals(k) ==
    IF k = 0 THEN "0.00"
    ELSE IF k = 1 THEN "0.13"
    ELSE IF k = 6 THEN "0.75"
    ELSE IF k = 803 THEN "100.38"
    ELSE IF k = 1600 THEN "200.00"
    ELSE "?"

ElementLine(sel, rect) ==
    SelectorText(sel) \o " => width: " \o TwoDecimals(rect[1]) \o " px | height: "
    \o TwoDecimals(rect[2]) \o " px"

ErrorText(sel) ==
    "Element not present for selector: \"" \o SelectorText(sel) \o "\""

(* both lines of overlay k are those of the viewport and of element e as   *)
(* they are now                                                            *)
ShowsCurrent(k, e) ==
    Shown(k) = <<ViewportLine(viewport),
                 ElementLine(calls[k].selector, getBoundingClientRect(e))>>

----------------------------------------------------------------------------

(* C1: showElementDimensions never raises an error to its caller: every    *)
(* call returns normally, and a call whose selector resolves to no element *)
(* leaves an overlay showing the 'Element not present' message.            *)
C1_NeverRaises ==
    \A k \in Frames :
        /\ Returned(k)
        /\ calls[k].element = Null => Shown(k) = <<ErrorText(calls[k].selector)>>

(* C2: right after a call whose selector matches no element, exactly one   *)
(* overlay has been appended per returned call, and the overlay of this    *)
(* call holds exactly the text                                             *)
(* Element not present for selector: "<selector>", and nothing else.       *)
C2_MissingMessage ==
    /\ Len(bodyChildren) = Cardinality({k \in Frames : Returned(k)})
    /\ \A k \in Frames :
        (/\ last.op = "call" /\ last.frame = k
         /\ ValidSelector(calls[k].selector)
         /\ querySelector(calls[k].selector) = Null)
        => /\ Returned(k)
           /\ calls[k].resultsBloc = Len(bodyChildren)
           /\ TextContent(Overlay(k).childNodes) = ErrorText(calls[k].selector)
           /\ Len(Overlay(k).childNodes) = 1

C2_Witness ==
    /\ last.op = "call"
    /\ calls[last.frame].selector = SelAttr
    /\ Missing(last.frame)
    /\ TextContent(Overlay(last.frame).childNodes)
           = "Element not present for selector: \"[t=\"<!--\"]\""

(* C3: right after a call whose selector matches an element, the overlay   *)
(* shows the viewport's width and height and, labelled with the caller's   *)
(* selector, the width and height of the first matching element in         *)
(* document order, each with two decimals and the px suffix.               *)
C3_InitialRender ==
    \A k \in Frames :
        (/\ last.op = "call" /\ last.frame = k
         /\ ValidSelector(calls[k].selector)
         /\ querySelector(calls[k].selector) # Null)
        => /\ Returned(k)
           /\ ShowsCurrent(k, querySelector(calls[k].selector))

(* C4: every delivery of a "resize" event leaves the number of overlays as *)
(* it was and makes every live overlay show the viewport's width and       *)
(* height of the time of delivery.                                         *)
C4_ViewportResize ==
    [][last'.op = "resize" =>
        /\ Len(bodyChildren') = Len(bodyChildren)
        /\ \A k \in Frames :
              Live(k) => RenderedLines(bodyChildren'[calls[k].resultsBloc].childNodes)[1]
                             = ViewportLine(viewport')]_vars

C4_Witness ==
    /\ last.op = "resize"
    /\ viewport = <<1024, 768>>
    /\ \E k \in Frames :
          Live(k) /\ Shown(k)[1] = "Viewport => width: 1024px | height: 768px"

(* C5: with ResizeObserver available, the delivery of an element-resize    *)
(* notification makes the overlay show the element's width and height of   *)
(* the time of delivery, beside the viewport's numbers as read then.       *)
C5_ElementResize ==
    \A k \in Frames :
        (hasRO /\ last.op = "elresize" /\ last.frame = k)
        => ShowsCurrent(k, calls[k].element)

(* C6: two calls make two distinct overlays; a step changes the content of *)
(* an overlay only when the updateDimensions of that overlay's own call    *)
(* has run in it, an element-resize notification re-renders the overlay of *)
(* its own observer alone, and an observer's target is the element its     *)
(* call resolved.                                                          *)
C6_Independence ==
    /\ [](/\ \A k1, k2 \in Frames :
               (Returned(k1) /\ Returned(k2) /\ k1 # k2)
               => calls[k1].resultsBloc # calls[k2].resultsBloc
          /\ \A o \in observers : o.target = calls[o.callback].element)
    /\ [][/\ \A j \in 1..Len(bodyChildren) :
               bodyChildren'[j] # bodyChildren[j]
               => \E k \in last'.rendered : calls[k].resultsBloc = j
          /\ last'.op = "elresize" =>
               \A j \in 1..Len(bodyChildren) :
                   j # calls[last'.frame].resultsBloc
                   => bodyChildren'[j] = bodyChildren[j]]_vars

C6_Witness ==
    /\ Len(calls) = 2 /\ Live(1) /\ Live(2)
    /\ calls[1].selector # calls[2].selector
    /\ calls[1].element # calls[2].element
    /\ last.op = "elresize" /\ last.frame = 1
    /\ hostChanges > 0
    /\ Shown(1) # Shown(2)

(* C7: without ResizeObserver a found-element call returns with the right  *)
(* viewport and element values shown, has its "resize" listener and no     *)
(* observer, and every later "resize" event re-renders the overlay with    *)
(* the values of the time of delivery.                                     *)
C7_Degradation ==
    ~hasRO =>
        /\ observers = {}
        /\ \A k \in Frames :
              Live(k) =>
                /\ k \in Range(resizeListeners)
                /\ ((last.op = "call" /\ last.frame = k) \/ last.op = "resize")
                   => ShowsCurrent(k, calls[k].element)

C9_MissingIsTerminal ==
    \A k \in Frames :
        Missing(k) =>
            /\ k \notin Range(resizeListeners)
            /\ \A o \in observers : o.callback # k
            /\ k \notin last.rendered
            /\ TextContent(Overlay(k).childNodes) = ErrorText(calls[k].selector)
            /\ Shown(k) = <<ErrorText(calls[k].selector)>>

C9_Witness ==
    /\ Len(calls) = 2 /\ Missing(1) /\ Live(2)
    /\ querySelector(calls[1].selector) # Null
    /\ last.op \in {"resize", "elresize"}
    /\ Shown(1) = <<"Element not present for selector: \".b\"">>

(* C10: with ResizeObserver available, whenever no "resize" event and no   *)
(* observer notification is queued, every live overlay shows the current   *)
(* viewport and the current box of the element its call resolved.          *)
C10_FreshAtQuiescence ==
    (hasRO /\ ~pendingResize /\ pendingRO = {}) =>
        \A k \in Frames : Live(k) => ShowsCurrent(k, calls[k].element)

====
